---- MODULE Spec2Model ----
(***************************************************************************)
(* Model of the organisational-chart explorer (Aya-Jafar/SWE-task).        *)
(*                                                                         *)
(* Components, each with its own specification over the shared variables:  *)
(*   SpecSelector  - getEndpointForRootNodes        (utils/helpers.ts)     *)
(*   SpecFilter    - filterByExactParentID          (utils/helpers.ts)     *)
(*   SpecDebounce  - debounce                       (utils/helpers.ts)     *)
(*   SpecLayout    - layout store                   (stores/layout.ts)     *)
(*   SpecButton    - Button click handler           (common/Button.vue)    *)
(*   SpecForm      - CreateNodeModal form           (common/Button.vue)    *)
(*   SpecTree      - node repository, fetch coordinator and creation       *)
(*                   workflow of the dyanmicTree store (spec.md 4.1-4.5)   *)
(***************************************************************************)
EXTENDS Integers, Sequences, FiniteSets, TLC

VARIABLES
  \* ---- root source selector
  page,            \* page number about to be requested
  selected,        \* log of <<page, endpoint>> selections made so far
  \* ---- filterByExactParentID
  data,            \* argument: Node[]
  parentId,        \* argument: string | null
  filtered,        \* returned array
  filterDone,      \* TRUE once the function has returned
  \* ---- debounce
  now,             \* wall clock (ms ticks)
  timers,          \* pending setTimeout timers of the host
  timeout,         \* closure variable `timeout` (timer handle)
  nextHandle,      \* next handle setTimeout will return
  calls,           \* log of calls of the debounced function
  invoked,         \* log of invocations of func
  \* ---- layout store
  isSidebarOpen,
  isMobile,
  tabs,
  layoutHist,      \* the last two store operations (name, width, state before)
  \* ---- Button
  disabled,
  loading,
  clicks,          \* number of click events delivered to handleClick
  actionCalls,     \* number of times props.action() ran
  \* ---- CreateNodeModal
  propParentId,    \* props.parentId
  newNodeLabel,
  description,
  numberOfEmployees,
  isInputValid,
  errorMessages,
  emitted,         \* events emitted by the latest handleSubmit, in order
  \* ---- tree manager (dyanmicTree store)
  repo,            \* Node Repository: set of nodes
  inFlight,        \* Fetch Coordinator: in-flight request keys
  net,             \* outstanding network operations per key
  fetchCalls,      \* network calls issued per key
  waiting,         \* requests made per key while it was in flight
  loaded,          \* keys whose fetch completed successfully
  pending,         \* optimistic creations awaiting the server
  tempUsed,        \* temporary ids handed out so far
  lastRollback     \* record of the most recent rollback

selectorVars == <<page, selected>>
filterVars   == <<data, parentId, filtered, filterDone>>
debounceVars == <<now, timers, timeout, nextHandle, calls, invoked>>
layoutVars   == <<isSidebarOpen, isMobile, tabs, layoutHist>>
buttonVars   == <<disabled, loading, clicks, actionCalls>>
formVars     == <<propParentId, newNodeLabel, description, numberOfEmployees,
                  isInputValid, errorMessages, emitted>>
treeVars     == <<repo, inFlight, net, fetchCalls, waiting, loaded, pending,
                  tempUsed, lastRollback>>

vars == <<selectorVars, filterVars, debounceVars, layoutVars, buttonVars,
          formVars, treeVars>>

(***************************************************************************)
(* JavaScript values shared by the components.                             *)
(***************************************************************************)
\* string | null : a string is tagged so that it never equals null
NULL == <<"null">>
Str(s) == <<"str", s>>
UNDEFINED == "undefined"

\* JavaScript's % : the remainder takes the sign of the dividend
JsRem(a, b) == IF a >= 0 THEN a % b ELSE 0 - ((0 - a) % b)

\* arr[i] on a JavaScript array (0-based, undefined outside the array)
ArrayGet(arr, i) == IF i \in 0..(Len(arr) - 1) THEN arr[i + 1] ELSE UNDEFINED

(***************************************************************************)
(* Root source selector: getEndpointForRootNodes                           *)
(***************************************************************************)
MaxPage == 4
MaxLoads == 4

endpoints == <<"DEPARTMENTS2", "DEPARTMENTS3">>

getEndpointForRootNodesShifted(p) ==
  ArrayGet(endpoints, JsRem(p, Len(endpoints)))

getEndpointForRootNodes(p) ==
  ArrayGet(endpoints, JsRem(p - 1, Len(endpoints)))

InitSelector ==
  /\ page \in 0..MaxPage
  /\ selected = <<>>

\* the caller asks for the endpoint of the current page and moves to the next
LoadRootPage ==
  /\ Len(selected) < MaxLoads
  /\ selected' = Append(selected,
                        [page |-> page, endpoint |-> getEndpointForRootNodes(page)])
  /\ page' = page + 1
  /\ UNCHANGED <<filterVars, debounceVars, layoutVars, buttonVars, formVars, treeVars>>

\* the caller jumps to an arbitrary page
GoToPage ==
  /\ \E p \in 0..MaxPage : p # page /\ page' = p
  /\ UNCHANGED selected
  /\ UNCHANGED <<filterVars, debounceVars, layoutVars, buttonVars, formVars, treeVars>>

(***************************************************************************)
(* filterByExactParentID                                                   *)
(***************************************************************************)
MaxNodes == 3

\* ids are digit strings, kept as sequences of digits so that "1" is a
\* proper prefix of "11" and "12"
NodePool ==
  { [id |-> <<1>>,       parentId |-> NULL],
    [id |-> <<2>>,       parentId |-> NULL],
    [id |-> <<1, 1>>,    parentId |-> Str(<<1>>)],
    [id |-> <<1, 2>>,    parentId |-> Str(<<1>>)],
    [id |-> <<1, 1, 1>>, parentId |-> Str(<<1, 1>>)] }

ParentIds == { NULL, Str(<<1>>), Str(<<1, 1>>), Str(<<2>>), Str(<<>>) }

RECURSIVE SeqsUpTo(_, _)
SeqsUpTo(S, n) ==
  IF n = 0 THEN { <<>> }
  ELSE LET shorter == SeqsUpTo(S, n - 1)
       IN shorter \cup { Append(s, x) : s \in shorter, x \in S }

IsPrefix(p, s) == Len(p) <= Len(s) /\ SubSeq(s, 1, Len(p)) = p

\* a filter matching every descendant path instead of the exact parent
filterByParentPrefix(d, pid) ==
  SelectSeq(d, LAMBDA item :
    \/ item.parentId = pid
    \/ /\ item.parentId # NULL
       /\ pid # NULL
       /\ IsPrefix(pid[2], item.parentId[2]))

filterByExactParentID(d, pid) ==
  SelectSeq(d, LAMBDA item : item.parentId = pid)

InitFilter ==
  /\ data \in SeqsUpTo(NodePool, MaxNodes)
  /\ parentId \in ParentIds
  /\ filtered = <<>>
  /\ filterDone = FALSE

ApplyFilter ==
  /\ ~filterDone
  /\ filtered' = filterByExactParentID(data, parentId)
  /\ filterDone' = TRUE
  /\ UNCHANGED <<data, parentId>>
  /\ UNCHANGED <<selectorVars, debounceVars, layoutVars, buttonVars, formVars, treeVars>>

(***************************************************************************)
(* Layout store                                                            *)
(***************************************************************************)
MOBILE_BREAKPOINT == 768

\* how many past store operations layoutHist keeps
HistLen == 3

\* window.innerWidth values, on both sides of the breakpoint
Widths == { 320, 767, 768, 1024 }

\* a sidebar operation that closes instead of flipping
closeSidebar(open) == FALSE

\* toggleSidebar's assignment: isSidebarOpen.value = !isSidebarOpen.value
toggledSidebar(open) == ~open

Remember(op, w) ==
  LET entry == [op |-> op, width |-> w, openBefore |-> isSidebarOpen]
  IN IF Len(layoutHist) < HistLen THEN Append(layoutHist, entry)
     ELSE Append(Tail(layoutHist), entry)

InitLayout ==
  /\ isSidebarOpen = TRUE
  /\ isMobile = FALSE
  /\ tabs = <<[id |-> 1, label |-> "dashboard"], [id |-> 2, label |-> "departments"]>>
  /\ layoutHist = <<>>

toggleSidebar ==
  /\ isSidebarOpen' = toggledSidebar(isSidebarOpen)
  /\ layoutHist' = Remember("toggleSidebar", 0)
  /\ UNCHANGED <<isMobile, tabs>>
  /\ UNCHANGED <<selectorVars, filterVars, debounceVars, buttonVars, formVars, treeVars>>

checkScreenSize ==
  \E innerWidth \in Widths :
    /\ isMobile' = (innerWidth < MOBILE_BREAKPOINT)
    /\ isSidebarOpen' = IF innerWidth < MOBILE_BREAKPOINT
                        THEN toggledSidebar(isSidebarOpen)
                        ELSE isSidebarOpen
    /\ layoutHist' = Remember("checkScreenSize", innerWidth)
    /\ UNCHANGED tabs
    /\ UNCHANGED <<selectorVars, filterVars, debounceVars, buttonVars, formVars, treeVars>>

(***************************************************************************)
(* Button                                                                  *)
(***************************************************************************)
MaxClicks == 8

\* a handler that only honours the disabled prop
shouldRunActionIgnoringLoading(d, l) == ~d

\* handleClick's condition
shouldRunAction(d, l) == ~d /\ ~l

InitButton ==
  /\ disabled = FALSE
  /\ loading = FALSE
  /\ clicks = 0
  /\ actionCalls = 0

\* the parent re-renders the button with new props
SetButtonProps ==
  /\ \E d \in BOOLEAN, l \in BOOLEAN :
       /\ <<d, l>> # <<disabled, loading>>
       /\ disabled' = d
       /\ loading' = l
  /\ UNCHANGED <<clicks, actionCalls>>
  /\ UNCHANGED <<selectorVars, filterVars, debounceVars, layoutVars, formVars, treeVars>>

handleClick ==
  /\ clicks < MaxClicks
  /\ clicks' = clicks + 1
  /\ actionCalls' = IF shouldRunAction(disabled, loading)
                    THEN actionCalls + 1
                    ELSE actionCalls
  /\ UNCHANGED <<disabled, loading>>
  /\ UNCHANGED <<selectorVars, filterVars, debounceVars, layoutVars, formVars, treeVars>>

(***************************************************************************)
(* CreateNodeModal: validateForm, handleSubmit, resetAndEmit               *)
(***************************************************************************)
MaxLabelLen == 2
MaxDescLen == 1

Chars == { " ", "a" }
Num(n) == <<"num", n>>

\* v-model values the form fields can hold
Labels == SeqsUpTo(Chars, MaxLabelLen)
Descriptions == SeqsUpTo(Chars, MaxDescLen)
EmployeeCounts == { NULL, Num(0 - 1), Num(0), Num(1) }

RECURSIVE trimStart(_)
trimStart(s) ==
  IF s = <<>> THEN s
  ELSE IF Head(s) = " " THEN trimStart(Tail(s)) ELSE s

RECURSIVE trimEnd(_)
trimEnd(s) ==
  IF s = <<>> THEN s
  ELSE IF s[Len(s)] = " " THEN trimEnd(SubSeq(s, 1, Len(s) - 1)) ELSE s

\* a trim that leaves the string as typed
trimNothing(s) == s

\* String.prototype.trim
trim(s) == trimEnd(trimStart(s))

\* !str : the empty string is the only falsy string
IsFalsyString(s) == s = <<>>

\* the errors object built by validateForm, as a function from the keys set
validateForm(label, desc, n) ==
  LET labelBad == IsFalsyString(trim(label))
      descBad  == IsFalsyString(trim(desc))
      countBad == n = NULL \/ n[2] < 0
      keys == (IF labelBad THEN { "label" } ELSE {})
              \cup (IF descBad THEN { "description" } ELSE {})
              \cup (IF countBad THEN { "numberOfEmployees" } ELSE {})
  IN [k \in keys |->
        IF k = "label" THEN "empty_node_label"
        ELSE IF k = "description" THEN "empty_description"
        ELSE "invalid_employee_count"]

Fields(label, desc, n) ==
  [label |-> label, description |-> desc, numberOfEmployees |-> n]

EmptyFields == Fields(<<>>, <<>>, NULL)

\* a resetAndEmit that clears the inputs before emitting submit
resetThenEmit(newNode, fields) ==
  [ fields  |-> EmptyFields,
    emitted |-> << [name |-> "submit", payload |-> newNode, fieldsAtEmit |-> EmptyFields],
                   [name |-> "close", payload |-> newNode, fieldsAtEmit |-> EmptyFields] >> ]

\* resetAndEmit: emit("submit", newNode); clear the three inputs; emit("close").
\* Each event carries the input fields as a listener sees them when it runs.
resetAndEmit(newNode, fields) ==
  [ fields  |-> EmptyFields,
    emitted |-> << [name |-> "submit", payload |-> newNode, fieldsAtEmit |-> fields],
                   [name |-> "close", payload |-> newNode, fieldsAtEmit |-> EmptyFields] >> ]

InitForm ==
  /\ propParentId \in { NULL, Str(<<1>>) }
  /\ newNodeLabel = <<>>
  /\ description = <<>>
  /\ numberOfEmployees = NULL
  /\ isInputValid = TRUE
  /\ errorMessages = << >>
  /\ emitted = <<>>

IdleForm ==
  /\ propParentId = NULL
  /\ newNodeLabel = <<>>
  /\ description = <<>>
  /\ numberOfEmployees = NULL
  /\ isInputValid = TRUE
  /\ errorMessages = << >>
  /\ emitted = <<>>

TypeLabel ==
  /\ \E s \in Labels : s # newNodeLabel /\ newNodeLabel' = s
  /\ UNCHANGED <<propParentId, description, numberOfEmployees, isInputValid,
                 errorMessages, emitted>>
  /\ UNCHANGED <<selectorVars, filterVars, debounceVars, layoutVars, buttonVars, treeVars>>

TypeDescription ==
  /\ \E s \in Descriptions : s # description /\ description' = s
  /\ UNCHANGED <<propParentId, newNodeLabel, numberOfEmployees, isInputValid,
                 errorMessages, emitted>>
  /\ UNCHANGED <<selectorVars, filterVars, debounceVars, layoutVars, buttonVars, treeVars>>

TypeEmployees ==
  /\ \E n \in EmployeeCounts : n # numberOfEmployees /\ numberOfEmployees' = n
  /\ UNCHANGED <<propParentId, newNodeLabel, description, isInputValid,
                 errorMessages, emitted>>
  /\ UNCHANGED <<selectorVars, filterVars, debounceVars, layoutVars, buttonVars, treeVars>>

handleSubmit ==
  LET errors == validateForm(newNodeLabel, description, numberOfEmployees)
      valid == DOMAIN errors = {}
      newNode == [ label |-> newNodeLabel,
                   parentId |-> propParentId,
                   description |-> description,
                   numberOfEmployees |-> numberOfEmployees ]
      done == resetAndEmit(newNode,
                           Fields(newNodeLabel, description, numberOfEmployees))
  IN /\ errorMessages' = errors
     /\ IF ~valid
        THEN /\ isInputValid' = FALSE
             /\ emitted' = <<>>
             /\ UNCHANGED <<newNodeLabel, description, numberOfEmployees>>
        ELSE /\ isInputValid' = TRUE
             /\ emitted' = done.emitted
             /\ newNodeLabel' = done.fields.label
             /\ description' = done.fields.description
             /\ numberOfEmployees' = done.fields.numberOfEmployees
     /\ UNCHANGED propParentId
     /\ UNCHANGED <<selectorVars, filterVars, debounceVars, layoutVars, buttonVars, treeVars>>

(***************************************************************************)
(* debounce                                                                *)
(*                                                                         *)
(* setTimeout(f, wait) registers a timer with the host; the host runs f in *)
(* a later task, no earlier than `wait` after the registration and, since  *)
(* tasks run to completion, possibly later.  clearTimeout(h) drops the     *)
(* timer with handle h if it is still pending.                             *)
(***************************************************************************)
WaitMs == 2
MaxTime == 6
MaxCalls == 3

Args == { "x", "y" }

\* a clearTimeout that leaves the timer pending
clearTimeoutNoop(ts, h) == ts

clearTimeout(ts, h) == { t \in ts : t.handle # h }

setTimeout(ts, h, a, c) ==
  ts \cup { [handle |-> h, due |-> now + WaitMs, args |-> a, call |-> c] }

InitDebounce ==
  /\ now = 0
  /\ timers = {}
  /\ timeout = 0
  /\ nextHandle = 1
  /\ calls = <<>>
  /\ invoked = <<>>

\* the function returned by debounce is called with argument a
DebouncedCall ==
  \E a \in Args :
    /\ Len(calls) < MaxCalls
    /\ now + WaitMs <= MaxTime
    /\ calls' = Append(calls, [args |-> a, at |-> now])
    /\ timers' = setTimeout(clearTimeout(timers, timeout), nextHandle, a,
                            Len(calls) + 1)
    /\ timeout' = nextHandle
    /\ nextHandle' = nextHandle + 1
    /\ UNCHANGED <<now, invoked>>
    /\ UNCHANGED <<selectorVars, filterVars, layoutVars, buttonVars, formVars, treeVars>>

\* the host runs the callback of a timer that is due: func.apply(this, args)
TimerFires ==
  \E t \in timers :
    /\ t.due <= now
    /\ timers' = timers \ { t }
    /\ invoked' = Append(invoked, [args |-> t.args, at |-> now, call |-> t.call,
                                   callsSoFar |-> Len(calls)])
    /\ UNCHANGED <<now, timeout, nextHandle, calls>>
    /\ UNCHANGED <<selectorVars, filterVars, layoutVars, buttonVars, formVars, treeVars>>

Tick ==
  /\ now < MaxTime
  /\ now' = now + 1
  /\ UNCHANGED <<timers, timeout, nextHandle, calls, invoked>>
  /\ UNCHANGED <<selectorVars, filterVars, layoutVars, buttonVars, formVars, treeVars>>

(***************************************************************************)
(* Tree manager: Node Repository, Fetch Coordinator, Node Creation         *)
(* Workflow (spec.md 4.1, 4.3, 4.5)                                        *)
(***************************************************************************)
MaxFetches == 2
MaxWaiting == 2
MaxCreates == 2

ROOT == <<"root">>
NONE == <<"none">>

\* request keys: a root page ("root:p") or a parent id
RootKey(p) == <<"root:", p>>
NodeId(i) == <<"n", i>>
Keys == { RootKey(1), NodeId(1) }

\* what the backend returns for each key
Backend(key) ==
  IF key = RootKey(1) THEN { [id |-> NodeId(1), parentId |-> ROOT] }
  ELSE { [id |-> NodeId(2), parentId |-> NodeId(1)] }

TempIds == { <<"tmp", i>> : i \in 1..MaxCreates }
ServerId(t) == <<"srv", t[2]>>

Ids(r) == { n.id : n \in r }

\* a coordinator that never recognises a key as in flight
neverInFlight(key, keys) == FALSE

\* Fetch Coordinator's dedup test on the in-flight set
isInFlight(key, keys) == key \in keys

\* Repository.upsertMany: merge a batch by id
upsertMany(r, nodes) == { n \in r : n.id \notin Ids(nodes) } \cup nodes

\* a remove that deletes nothing
removeNothing(r, id) == r

\* Repository.remove
remove(r, id) == { n \in r : n.id # id }

\* every other pending creation sees whether the id set changed under it
Touch(p, t, newRepo) ==
  [u \in (DOMAIN p) \ { t } |->
     [p[u] EXCEPT !.touched = p[u].touched \/ Ids(newRepo) # Ids(repo)]]

InitTree ==
  /\ repo = {}
  /\ inFlight = {}
  /\ net = [k \in Keys |-> 0]
  /\ fetchCalls = [k \in Keys |-> 0]
  /\ waiting = [k \in Keys |-> 0]
  /\ loaded = {}
  /\ pending = << >>
  /\ tempUsed = {}
  /\ lastRollback = [temp |-> NONE, beforeInsert |-> {}, untouched |-> TRUE,
                     beforeRollback |-> {}, after |-> {}]

\* expand(id) / load root page p: ask the Fetch Coordinator for a key
RequestFetch ==
  \E key \in Keys :
    /\ key = RootKey(1) \/ key \in Ids(repo)
    /\ IF isInFlight(key, inFlight)
       THEN /\ waiting[key] < MaxWaiting
            /\ waiting' = [waiting EXCEPT ![key] = @ + 1]
            /\ UNCHANGED <<inFlight, net, fetchCalls>>
       ELSE /\ fetchCalls[key] < MaxFetches
            /\ inFlight' = inFlight \cup { key }
            /\ net' = [net EXCEPT ![key] = @ + 1]
            /\ fetchCalls' = [fetchCalls EXCEPT ![key] = @ + 1]
            /\ UNCHANGED waiting
    /\ UNCHANGED <<repo, loaded, pending, tempUsed, lastRollback>>
    /\ UNCHANGED <<selectorVars, filterVars, debounceVars, layoutVars, buttonVars, formVars>>

\* a network operation for key resolves with the backend's nodes
FetchSucceeds ==
  \E key \in Keys :
    /\ net[key] > 0
    /\ net' = [net EXCEPT ![key] = @ - 1]
    /\ repo' = upsertMany(repo, Backend(key))
    /\ loaded' = loaded \cup { key }
    /\ inFlight' = inFlight \ { key }
    /\ waiting' = [waiting EXCEPT ![key] = 0]
    /\ pending' = Touch(pending, NONE, repo')
    /\ UNCHANGED <<fetchCalls, tempUsed, lastRollback>>
    /\ UNCHANGED <<selectorVars, filterVars, debounceVars, layoutVars, buttonVars, formVars>>

\* a network operation for key fails: the key leaves the in-flight set
FetchFails ==
  \E key \in Keys :
    /\ net[key] > 0
    /\ net' = [net EXCEPT ![key] = @ - 1]
    /\ inFlight' = inFlight \ { key }
    /\ waiting' = [waiting EXCEPT ![key] = 0]
    /\ UNCHANGED <<repo, loaded, fetchCalls, pending, tempUsed, lastRollback>>
    /\ UNCHANGED <<selectorVars, filterVars, debounceVars, layoutVars, buttonVars, formVars>>

\* submitNewNode with a valid form: optimistic insert under a temporary id
SubmitNewNode ==
  \E t \in TempIds, parent \in { ROOT } \cup Ids(repo) :
    /\ t \notin tempUsed
    /\ \A u \in TempIds : u[2] < t[2] => u \in tempUsed
    /\ parent \notin TempIds
    /\ repo' = repo \cup { [id |-> t, parentId |-> parent] }
    /\ tempUsed' = tempUsed \cup { t }
    /\ pending' = [u \in (DOMAIN pending) \cup { t } |->
                     IF u = t
                     THEN [parent |-> parent, before |-> Ids(repo), touched |-> FALSE]
                     ELSE [pending[u] EXCEPT !.touched = TRUE]]
    /\ UNCHANGED <<inFlight, net, fetchCalls, waiting, loaded, lastRollback>>
    /\ UNCHANGED <<selectorVars, filterVars, debounceVars, layoutVars, buttonVars, formVars>>

\* createNode resolves: the temporary node is replaced by the confirmed one
CreateConfirmed ==
  \E t \in DOMAIN pending :
    /\ repo' = remove(repo, t) \cup { [id |-> ServerId(t), parentId |-> pending[t].parent] }
    /\ pending' = Touch(pending, t, repo')
    /\ UNCHANGED <<inFlight, net, fetchCalls, waiting, loaded, tempUsed, lastRollback>>
    /\ UNCHANGED <<selectorVars, filterVars, debounceVars, layoutVars, buttonVars, formVars>>

\* createNode rejects: roll the optimistic insert back
CreateRejected ==
  \E t \in DOMAIN pending :
    /\ repo' = remove(repo, t)
    /\ pending' = Touch(pending, t, repo')
    /\ lastRollback' = [temp |-> t,
                        beforeInsert |-> pending[t].before,
                        untouched |-> ~pending[t].touched,
                        beforeRollback |-> Ids(repo),
                        after |-> Ids(repo')]
    /\ UNCHANGED <<inFlight, net, fetchCalls, waiting, loaded, tempUsed>>
    /\ UNCHANGED <<selectorVars, filterVars, debounceVars, layoutVars, buttonVars, formVars>>

(***************************************************************************)
(* Specifications                                                          *)
(***************************************************************************)
IdleSelector == page = 1 /\ selected = <<>>

IdleFilter ==
  /\ data = <<>>
  /\ parentId = NULL
  /\ filtered = <<>>
  /\ filterDone = FALSE

NextSelector == LoadRootPage \/ GoToPage
StartSelector ==
  /\ InitSelector /\ IdleFilter /\ InitDebounce /\ InitLayout /\ InitButton
  /\ IdleForm /\ InitTree
SpecSelector == StartSelector /\ [][NextSelector]_vars

NextFilter == ApplyFilter
StartFilter ==
  /\ IdleSelector /\ InitFilter /\ InitDebounce /\ InitLayout /\ InitButton
  /\ IdleForm /\ InitTree
SpecFilter == StartFilter /\ [][NextFilter]_vars

NextDebounce == DebouncedCall \/ TimerFires \/ Tick
StartDebounce ==
  /\ IdleSelector /\ IdleFilter /\ InitDebounce /\ InitLayout /\ InitButton
  /\ IdleForm /\ InitTree
\* the host's event loop keeps running: time passes and a due timer's task
\* is eventually run
SpecDebounce ==
  /\ StartDebounce
  /\ [][NextDebounce]_vars
  /\ WF_vars(Tick)
  /\ WF_vars(TimerFires)

NextLayout == toggleSidebar \/ checkScreenSize
StartLayout ==
  /\ IdleSelector /\ IdleFilter /\ InitDebounce /\ InitLayout /\ InitButton
  /\ IdleForm /\ InitTree
SpecLayout == StartLayout /\ [][NextLayout]_vars

NextButton == SetButtonProps \/ handleClick
StartButton ==
  /\ IdleSelector /\ IdleFilter /\ InitDebounce /\ InitLayout /\ InitButton
  /\ IdleForm /\ InitTree
SpecButton == StartButton /\ [][NextButton]_vars

NextForm == TypeLabel \/ TypeDescription \/ TypeEmployees \/ handleSubmit
StartForm ==
  /\ IdleSelector /\ IdleFilter /\ InitDebounce /\ InitLayout /\ InitButton
  /\ InitForm /\ InitTree
SpecForm == StartForm /\ [][NextForm]_vars

NextTree ==
  \/ RequestFetch
  \/ FetchSucceeds
  \/ FetchFails
  \/ SubmitNewNode
  \/ CreateConfirmed
  \/ CreateRejected
StartTree ==
  /\ IdleSelector /\ IdleFilter /\ InitDebounce /\ InitLayout /\ InitButton
  /\ IdleForm /\ InitTree
SpecTree == StartTree /\ [][NextTree]_vars

(***************************************************************************)
(* Properties                                                              *)
(***************************************************************************)

\* C1: for every page p >= 1, getEndpointForRootNodes(p) is the endpoint at
\* index (p-1) mod N of the fixed endpoint list; the same page always gives
\* the same endpoint; N consecutive pages select every endpoint exactly once;
\* with the two endpoints [A, B], pages 1,2,3,4 select A,B,A,B.
SelectorRoundRobin ==
  LET N == Len(endpoints)
      L == Len(selected)
  IN /\ \A i \in 1..L :
          selected[i].page >= 1 =>
            selected[i].endpoint = endpoints[((selected[i].page - 1) % N) + 1]
     /\ \A i, j \in 1..L :
          selected[i].page = selected[j].page =>
            selected[i].endpoint = selected[j].endpoint
     /\ \A i \in 1..L :
          ( /\ i + N - 1 <= L
            /\ selected[i].page >= 1
            /\ \A k \in 1..(N - 1) : selected[i + k].page = selected[i].page + k )
          => /\ { selected[i + k].endpoint : k \in 0..(N - 1) }
                  = { endpoints[e] : e \in 1..N }
             /\ \A k, m \in 0..(N - 1) :
                  k # m => selected[i + k].endpoint # selected[i + m].endpoint
     /\ ( L >= 4 /\ \A i \in 1..4 : selected[i].page = i )
          => /\ selected[1].endpoint = endpoints[1]
             /\ selected[2].endpoint = endpoints[2]
             /\ selected[3].endpoint = endpoints[1]
             /\ selected[4].endpoint = endpoints[2]

\* pages 1,2,3,4 have been requested in order
SelectorWitness ==
  /\ Len(selected) = 4
  /\ \A i \in 1..4 : selected[i].page = i

\* C2: filterByExactParentID(data, X) returns exactly the nodes of data whose
\* parentId equals X, in their relative order in data: nothing with another
\* parent (descendant, sibling, prefix match) is included, no match is left out.
FilterExactChildren ==
  filterDone =>
    LET hits == { i \in 1..Len(data) : data[i].parentId = parentId }
    IN /\ Len(filtered) = Cardinality(hits)
       /\ \A k \in 1..Len(filtered) :
            \E i \in hits :
              /\ Cardinality({ j \in hits : j <= i }) = k
              /\ filtered[k] = data[i]

\* children of "1" were returned from data that also holds a grandchild whose
\* parent id "11" has "1" as a prefix
FilterWitness ==
  /\ filterDone
  /\ parentId = Str(<<1>>)
  /\ Len(filtered) >= 1
  /\ \E i \in 1..Len(data) : data[i].parentId = Str(<<1, 1>>)
  /\ \E i \in 1..Len(data) : data[i].parentId = NULL

IsBlank(s) == \A i \in 1..Len(s) : s[i] = " "

\* C3: validateForm reports every violated field at once: empty_node_label
\* iff the label is blank after trimming, empty_description iff the
\* description is blank after trimming, invalid_employee_count iff
\* numberOfEmployees is null or negative; it returns true (isInputValid) iff
\* there is no error.
ValidateReportsAll ==
  [][ handleSubmit =>
        LET e == errorMessages'
            labelBad == IsBlank(newNodeLabel)
            descBad == IsBlank(description)
            countBad == numberOfEmployees = NULL \/ numberOfEmployees[2] < 0
        IN /\ ("label" \in DOMAIN e) <=> labelBad
           /\ ("description" \in DOMAIN e) <=> descBad
           /\ ("numberOfEmployees" \in DOMAIN e) <=> countBad
           /\ DOMAIN e \subseteq { "label", "description", "numberOfEmployees" }
           /\ labelBad => e["label"] = "empty_node_label"
           /\ descBad => e["description"] = "empty_description"
           /\ countBad => e["numberOfEmployees"] = "invalid_employee_count"
           /\ isInputValid' <=> (DOMAIN e = {})
    ]_vars

\* a whitespace-only label and a negative count were submitted together
ValidateWitness ==
  /\ ~isInputValid
  /\ newNodeLabel = <<" ">>
  /\ numberOfEmployees = Num(0 - 1)
  /\ ~IsBlank(description)
  /\ DOMAIN errorMessages = { "label", "numberOfEmployees" }
  /\ errorMessages["label"] = "empty_node_label"
  /\ errorMessages["numberOfEmployees"] = "invalid_employee_count"

\* C4: a submission that fails validation emits nothing and leaves the three
\* inputs unchanged; one that passes emits submit exactly once, carrying the
\* entered values and the target parentId, while the inputs still hold the
\* entered values, then resets the inputs, then emits close.
ResetOnlyAfterEmit ==
  [][ handleSubmit =>
        LET ok == /\ ~IsBlank(newNodeLabel)
                  /\ ~IsBlank(description)
                  /\ numberOfEmployees # NULL
                  /\ numberOfEmployees[2] >= 0
            entered == Fields(newNodeLabel, description, numberOfEmployees)
        IN IF ok
           THEN /\ Len(emitted') = 2
                /\ emitted'[1].name = "submit"
                /\ emitted'[1].payload.label = newNodeLabel
                /\ emitted'[1].payload.description = description
                /\ emitted'[1].payload.numberOfEmployees = numberOfEmployees
                /\ emitted'[1].payload.parentId = propParentId
                /\ emitted'[1].fieldsAtEmit = entered
                /\ emitted'[2].name = "close"
                /\ emitted'[2].fieldsAtEmit = EmptyFields
                /\ newNodeLabel' = <<>>
                /\ description' = <<>>
                /\ numberOfEmployees' = NULL
           ELSE /\ emitted' = <<>>
                /\ newNodeLabel' = newNodeLabel
                /\ description' = description
                /\ numberOfEmployees' = numberOfEmployees
    ]_vars

\* a valid form for parent "1" was submitted: submit, reset, close
SubmitWitness ==
  /\ isInputValid
  /\ Len(emitted) = 2
  /\ emitted[1].name = "submit"
  /\ emitted[1].payload.parentId = Str(<<1>>)
  /\ emitted[1].payload.label = <<" ", "a">>
  /\ emitted[2].name = "close"
  /\ newNodeLabel = <<>>
  /\ description = <<>>
  /\ numberOfEmployees = NULL

\* C5: a click runs the action iff neither disabled nor loading is true at the
\* time of the click: exactly once per click when enabled and not loading,
\* never otherwise; the action runs on clicks only.
ClickRunsActionIffEnabled ==
  [][ /\ clicks' = clicks + 1 =>
           actionCalls' = IF ~disabled /\ ~loading
                          THEN actionCalls + 1
                          ELSE actionCalls
      /\ actionCalls' # actionCalls => clicks' = clicks + 1
    ]_vars

\* clicks were delivered both while enabled and while loading
ClickWitness ==
  /\ loading
  /\ ~disabled
  /\ actionCalls = 2
  /\ clicks = 5

\* C6: at most one network operation is outstanding per request key, and a
\* request for a key already in flight issues no second call.
OneFetchPerKey ==
  /\ [](\A k \in Keys : net[k] <= 1 /\ (net[k] = 1 <=> k \in inFlight))
  /\ [][ \A k \in Keys :
           k \in inFlight => /\ fetchCalls'[k] = fetchCalls[k]
                             /\ net'[k] <= net[k] ]_vars

\* node n1 was expanded again while its first fetch was outstanding
DoubleExpandWitness ==
  /\ NodeId(1) \in inFlight
  /\ waiting[NodeId(1)] >= 1
  /\ fetchCalls[NodeId(1)] = 1
  /\ net[NodeId(1)] = 1

\* C7 as stated: after a rollback the repository's id set is the one from
\* before the optimistic insert, whatever happened in between.
RollbackRestoresBeforeInsert ==
  lastRollback.temp # NONE => lastRollback.after = lastRollback.beforeInsert

\* C7 amended: a rollback removes the temporary node and nothing else, so no
\* ghost remains; the id set is the one from before the optimistic insert
\* when no other operation changed the repository in between.
RollbackRemovesOnlyTemp ==
  lastRollback.temp # NONE =>
    /\ lastRollback.temp \notin lastRollback.after
    /\ lastRollback.temp \in lastRollback.beforeRollback
    /\ lastRollback.after = lastRollback.beforeRollback \ { lastRollback.temp }
    /\ lastRollback.untouched => lastRollback.after = lastRollback.beforeInsert
    /\ lastRollback.temp \notin Ids(repo)

\* a creation was rolled back after a fetch had merged nodes in between
RollbackWitness ==
  /\ lastRollback.temp # NONE
  /\ ~lastRollback.untouched
  /\ lastRollback.after # lastRollback.beforeInsert
  /\ NodeId(1) \in lastRollback.after

DebounceLog ==
  /\ Cardinality(timers) <= 1
  /\ \A t \in timers : t.call = Len(calls) /\ t.handle = timeout
  /\ \A i \in 1..Len(invoked) :
       LET v == invoked[i]
       IN /\ v.call \in 1..Len(calls)
          /\ v.args = calls[v.call].args
          /\ v.at >= calls[v.call].at + WaitMs
          /\ v.callsSoFar = v.call
  /\ \A i, j \in 1..Len(invoked) : i < j => invoked[i].call < invoked[j].call
  /\ \A k \in 1..(Len(calls) - 1) :
       calls[k + 1].at - calls[k].at < WaitMs =>
         \A i \in 1..Len(invoked) : invoked[i].call # k
  /\ (calls # <<>> /\ timers = {}) =>
       \E i \in 1..Len(invoked) : invoked[i].call = Len(calls)

LayoutFrame ==
  /\ [][ LET e == layoutHist'[Len(layoutHist')]
         IN /\ tabs' = tabs
            /\ e.op = "checkScreenSize" =>
                 /\ isMobile' = (e.width < 768)
                 /\ isSidebarOpen' = IF e.width < 768
                                     THEN ~isSidebarOpen
                                     ELSE isSidebarOpen
            /\ e.op = "toggleSidebar" =>
                 /\ isSidebarOpen' = ~isSidebarOpen
                 /\ isMobile' = isMobile ]_vars
  /\ [](Len(layoutHist) >= 2 =>
          LET a == layoutHist[Len(layoutHist) - 1]
              b == layoutHist[Len(layoutHist)]
          IN ( \/ a.op = "toggleSidebar" /\ b.op = "toggleSidebar"
               \/ /\ a.op = "checkScreenSize" /\ b.op = "checkScreenSize"
                  /\ a.width < 768 /\ b.width < 768 )
             => isSidebarOpen = a.openBefore)

\* checkScreenSize ran twice at mobile widths starting from a closed sidebar
LayoutWitness ==
  /\ Len(layoutHist) >= 2
  /\ layoutHist[Len(layoutHist) - 1].op = "checkScreenSize"
  /\ layoutHist[Len(layoutHist)].op = "checkScreenSize"
  /\ layoutHist[Len(layoutHist) - 1].width = 320
  /\ layoutHist[Len(layoutHist)].width = 767
  /\ layoutHist[Len(layoutHist) - 1].openBefore = FALSE
  /\ isMobile
  /\ ~isSidebarOpen

====
